---- MODULE Spec2Model ----
(***************************************************************************)
(* Model of the Windows Update provisioner                                 *)
(* (provisioner/update/provisioner.go): Prepare applies the defaults of    *)
(* the configuration, Provision uploads (stages) the embedded script under *)
(* one retry loop and runs it under a second one, and maps the outcome to  *)
(* the error it returns.                                                   *)
(*                                                                         *)
(* Durations are in seconds.  Strings are sequences of character codes.    *)
(* An error value is a record: kind says which statement built it, code is *)
(* the exit status formatted into its message (0 when there is none),      *)
(* attempt is the retry attempt that produced it, and exhausted says that  *)
(* retry.Config.Run wrapped it in a RetryExhaustedError.                   *)
(***************************************************************************)
EXTENDS Integers, Sequences, FiniteSets, TLC

(* ------------------------------ bounds -------------------------------- *)
\* update_retry_attempts / upload_retry_attempts given by the user: 0..MaxRawAttempts.
MaxRawAttempts == 3
\* The positive duration the user may give for a delay or a timeout.
MaxRawDuration == 2
\* The embedded script has at most this many bytes.
MaxPayloadLen == 2
\* One attempt (a local file write, a remote command) takes 0..MaxAttemptTime.
MaxAttemptTime == 1

(* ------------------------- program constants -------------------------- *)
DefaultRestartTimeout == 3600
DefaultUploadRetryAttempts == 5
DefaultUploadRetryDelay == 30
DefaultUploadTimeout == 300
DefaultUpdateRetryAttempts == 5
DefaultUpdateTimeout == 14400
DefaultUpdateAttempts == 3
\* retry.Config.Run waits 2 seconds between attempts when RetryDelay is nil,
\* which is how runWindowsUpdate builds its retry.Config.
RunRetryDelay == 2

(* ----------------------------- exit codes ----------------------------- *)
\* An exit status is a Go int (64 bits here).  2147942501 = 0x80070065 is more
\* than the integers of the model checker hold, so an exit status is kept as
\* its two 16-bit halves: ExitCode(hi, lo) is the integer hi * 65536 + lo.
ExitCode(hi, lo) == <<hi, lo>>
\* 0
ExitSuccess == ExitCode(0, 0)
\* 101
ExitRestartLegacy == ExitCode(0, 101)
\* 2147942501 = 0x8007 * 65536 + 0x0065
ExitRestart2012 == ExitCode(32775, 101)
\* 1, which runWindowsUpdate returns for an empty path
ExitOne == ExitCode(0, 1)

\* The exit codes that mean a restart is pending.
RestartCodes == {ExitRestartLegacy, ExitRestart2012}
\* The exit codes for which the attempt function returns nil.
StopCodes == {ExitSuccess} \cup RestartCodes
\* Exit codes the remote command may end with; 5 and 2147942405 = 0x80070005
\* are failures.
ExitCodes == StopCodes \cup {ExitCode(0, 5), ExitCode(32775, 5)}

(* ------------------------------ errors -------------------------------- *)
Err(k, c, a) == [kind |-> k, code |-> c, attempt |-> a, exhausted |-> FALSE]
NoErr == Err("nil", ExitSuccess, 0)
\* RetryExhausted without the cause: &RetryExhaustedError{}.
RetryExhaustedNoCause(e) == [NoErr EXCEPT !.exhausted = TRUE]
\* &RetryExhaustedError{err}
RetryExhausted(e) == [e EXCEPT !.exhausted = TRUE]

Max(a, b) == IF a >= b THEN a ELSE b

(* --------------------------- configuration ---------------------------- *)
\* The user's configuration as config.Decode leaves it.
RawConfigs ==
    [UploadRetryAttempts : 0..MaxRawAttempts,
     UpdateRetryAttempts : 0..MaxRawAttempts,
     UploadRetryDelay    : {0, 1},
     UploadTimeout       : {0, MaxRawDuration},
     UpdateTimeout       : {-1, MaxRawDuration},
     RestartTimeout      : {0}]

\* Every configuration within the bounds: each duration negative, zero or
\* positive, each attempt count (a uint) zero or positive.
WideRawConfigs ==
    [UploadRetryAttempts : 0..MaxRawAttempts,
     UpdateRetryAttempts : 0..MaxRawAttempts,
     UploadRetryDelay    : -1..MaxRawDuration,
     UploadTimeout       : -1..MaxRawDuration,
     UpdateTimeout       : -1..MaxRawDuration,
     RestartTimeout      : -1..MaxRawDuration]

\* The zero value of Config.
ZeroConfig ==
    [UploadRetryAttempts |-> 0, UpdateRetryAttempts |-> 0, UploadRetryDelay |-> 0,
     UploadTimeout |-> 0, UpdateTimeout |-> 0, RestartTimeout |-> 0]

\* ApplyDefaults with "< 0" as the test of the upload delay: 0 is kept.
ApplyDefaultsZeroDelayKept(c) ==
    [UploadRetryAttempts |->
        IF c.UploadRetryAttempts <= 0 THEN DefaultUploadRetryAttempts
        ELSE c.UploadRetryAttempts,
     UploadRetryDelay |->
        IF c.UploadRetryDelay < 0 THEN DefaultUploadRetryDelay
        ELSE c.UploadRetryDelay,
     UploadTimeout |->
        IF c.UploadTimeout <= 0 THEN DefaultUploadTimeout ELSE c.UploadTimeout,
     RestartTimeout |->
        IF c.RestartTimeout <= 0 THEN DefaultRestartTimeout ELSE c.RestartTimeout,
     UpdateRetryAttempts |->
        IF c.UpdateRetryAttempts <= 0 THEN DefaultUpdateRetryAttempts
        ELSE c.UpdateRetryAttempts,
     UpdateTimeout |->
        IF c.UpdateTimeout <= 0 THEN DefaultUpdateTimeout ELSE c.UpdateTimeout]

\* Prepare, lines 152-180: a field that is <= 0 gets its default.
ApplyDefaults(c) ==
    [UploadRetryAttempts |->
        IF c.UploadRetryAttempts <= 0 THEN DefaultUploadRetryAttempts
        ELSE c.UploadRetryAttempts,
     UploadRetryDelay |->
        IF c.UploadRetryDelay <= 0 THEN DefaultUploadRetryDelay
        ELSE c.UploadRetryDelay,
     UploadTimeout |->
        IF c.UploadTimeout <= 0 THEN DefaultUploadTimeout ELSE c.UploadTimeout,
     RestartTimeout |->
        IF c.RestartTimeout <= 0 THEN DefaultRestartTimeout ELSE c.RestartTimeout,
     UpdateRetryAttempts |->
        IF c.UpdateRetryAttempts <= 0 THEN DefaultUpdateRetryAttempts
        ELSE c.UpdateRetryAttempts,
     UpdateTimeout |->
        IF c.UpdateTimeout <= 0 THEN DefaultUpdateTimeout ELSE c.UpdateTimeout]

(* ------------------------------ payload ------------------------------- *)
RECURSIVE SeqsUpTo(_)
SeqsUpTo(n) ==
    IF n = 0 THEN {<<>>}
    ELSE LET shorter == SeqsUpTo(n - 1)
         IN  shorter \cup {Append(s, 1 + Len(s)) : s \in {t \in shorter : Len(t) = n - 1}}

\* Contents the embedded Invoke-WinUpdate.ps1 may have: <<>>, <<1>>, <<1, 2>>, ...
Payloads == SeqsUpTo(MaxPayloadLen)

(* --------------------------- temporary files -------------------------- *)
\* "/tmp/Invoke-WinUpdate" and ".ps1": os.CreateTemp("", "Invoke-WinUpdate*.ps1")
\* puts a string of its own between the two halves of the pattern.
TempPrefix ==
    <<47, 116, 109, 112, 47, 73, 110, 118, 111, 107, 101, 45, 87, 105, 110, 85,
      112, 100, 97, 116, 101>>
TempSuffix == <<46, 112, 115, 49>>
\* The name of the temporary file of the n-th attempt: no two files get the
\* same name.
TempName(n) == TempPrefix \o <<48 + n>> \o TempSuffix

NoFile == [name |-> <<>>, content |-> <<>>, closed |-> FALSE]

(* ------------------------- the command line --------------------------- *)
\* A string is the sequence of its bytes. The longest string the command is
\* built from, outside the provisioning runs.
MaxStrLen == 3

\* Bytes the strings are made of: space, the two quotes, slash, backslash and
\* tilde of printable ASCII, and 255, a byte that is never part of valid UTF-8.
SampleBytes == {32, 34, 39, 47, 92, 126, 255}

\* The strings of at most n sample bytes.
RECURSIVE StringsUpTo(_)
StringsUpTo(n) ==
    IF n = 0 THEN {<<>>}
    ELSE StringsUpTo(n - 1)
         \cup {Append(t, b) : t \in {u \in StringsUpTo(n - 1) : Len(u) = n - 1},
                              b \in SampleBytes}

\* []rune(s), for strings whose bytes are ASCII or can start no UTF-8
\* sequence: an ASCII byte is its own rune, any other byte decodes to U+FFFD.
Runes(s) == [i \in 1..Len(s) |-> IF s[i] < 128 THEN s[i] ELSE 65533]

\* utf16.Encode of one rune: itself below the surrogates and from 0xE000 to
\* 0xFFFF, a surrogate pair from 0x10000 to 0x10FFFF, U+FFFD for the rest.
Utf16EncodeRune(r) ==
    IF (0 <= r /\ r < 55296) \/ (57344 <= r /\ r < 65536) THEN <<r>>
    ELSE IF 65536 <= r /\ r <= 1114111
         THEN <<55296 + (((r - 65536) \div 1024) % 1024),
                56320 + ((r - 65536) % 1024)>>
         ELSE <<65533>>

\* utf16.Encode
RECURSIVE Utf16Encode(_)
Utf16Encode(rs) ==
    IF rs = <<>> THEN <<>>
    ELSE Utf16EncodeRune(Head(rs)) \o Utf16Encode(Tail(rs))

\* encodeUtf16Le with the two bytes of a unit in the other order.
encodeUtf16Be(s) ==
    LET d == Utf16Encode(Runes(s)) IN
    [j \in 1..(2 * Len(d)) |->
        IF j % 2 = 1 THEN (d[(j + 1) \div 2] \div 256) % 256
        ELSE d[j \div 2] % 256]

\* encodeUtf16Le, lines 413-425: b[i*2] = byte(r) and b[i*2+1] = byte(r >> 8)
\* for the i-th unit r (here the bytes are numbered from 1).
encodeUtf16Le(s) ==
    LET d == Utf16Encode(Runes(s)) IN
    [j \in 1..(2 * Len(d)) |->
        IF j % 2 = 1 THEN d[(j + 1) \div 2] % 256
        ELSE (d[j \div 2] \div 256) % 256]

\* The alphabet of base64.StdEncoding: A-Z, a-z, 0-9, + and /.
Base64Char(v) ==
    IF v < 26 THEN 65 + v
    ELSE IF v < 52 THEN 97 + (v - 26)
    ELSE IF v < 62 THEN 48 + (v - 52)
    ELSE IF v = 62 THEN 43
    ELSE 47

\* The padding character of base64.StdEncoding, "=".
Base64Pad == 61

\* base64.StdEncoding.EncodeToString: 3 bytes give 4 characters; a last group
\* of 1 or 2 bytes gives 2 or 3 characters and padding.
RECURSIVE Base64Encode(_)
Base64Encode(b) ==
    IF Len(b) = 0 THEN <<>>
    ELSE IF Len(b) = 1
         THEN <<Base64Char(b[1] \div 4), Base64Char((b[1] % 4) * 16),
                Base64Pad, Base64Pad>>
    ELSE IF Len(b) = 2
         THEN <<Base64Char(b[1] \div 4),
                Base64Char(((b[1] % 4) * 16) + (b[2] \div 16)),
                Base64Char((b[2] % 16) * 4), Base64Pad>>
    ELSE <<Base64Char(b[1] \div 4),
           Base64Char(((b[1] % 4) * 16) + (b[2] \div 16)),
           Base64Char(((b[2] % 16) * 4) + (b[3] \div 64)),
           Base64Char(b[3] % 64)>>
         \o Base64Encode(Tail(Tail(Tail(b))))

\* The value of a character of the alphabet of base64.StdEncoding, -1 for any
\* other character.
Base64Value(c) ==
    IF 65 <= c /\ c <= 90 THEN c - 65
    ELSE IF 97 <= c /\ c <= 122 THEN c - 97 + 26
    ELSE IF 48 <= c /\ c <= 57 THEN c - 48 + 52
    ELSE IF c = 43 THEN 62
    ELSE IF c = 47 THEN 63
    ELSE -1

\* base64.StdEncoding.DecodeString, what the reader of -EncodedCommand does:
\* 4 characters give 3 bytes, padding in the last group takes bytes away;
\* <<-1>> stands for the error of an input that is not base64.
RECURSIVE Base64Decode(_)
Base64Decode(t) ==
    IF Len(t) = 0 THEN <<>>
    ELSE IF Len(t) < 4 \/ Base64Value(t[1]) < 0 \/ Base64Value(t[2]) < 0
         THEN <<-1>>
    ELSE LET v1 == Base64Value(t[1])
             v2 == Base64Value(t[2])
             v3 == Base64Value(t[3])
             v4 == Base64Value(t[4])
             b1 == (v1 * 4) + (v2 \div 16)
             b2 == ((v2 % 16) * 16) + (v3 \div 4)
             b3 == ((v3 % 4) * 64) + v4
         IN
         IF t[3] = Base64Pad
         THEN IF Len(t) = 4 /\ t[4] = Base64Pad /\ v2 % 16 = 0
              THEN <<b1>> ELSE <<-1>>
         ELSE IF v3 < 0 THEN <<-1>>
         ELSE IF t[4] = Base64Pad
              THEN IF Len(t) = 4 /\ v3 % 4 = 0 THEN <<b1, b2>> ELSE <<-1>>
         ELSE IF v4 < 0 THEN <<-1>>
         ELSE LET rest == Base64Decode(SubSeq(t, 5, Len(t))) IN
              IF rest = <<-1>> THEN <<-1>> ELSE <<b1, b2, b3>> \o rest

\* "PowerShell -ExecutionPolicy Bypass -NoProfile -OutputFormat Text
\* -EncodedCommand ", the format string of line 409 up to its %s.
CommandPrefix ==
    <<80, 111, 119, 101, 114, 83, 104, 101, 108, 108, 32, 45, 69, 120, 101,
      99, 117, 116, 105, 111, 110, 80, 111, 108, 105, 99, 121, 32, 66, 121,
      112, 97, 115, 115, 32, 45, 78, 111, 80, 114, 111, 102, 105, 108, 101,
      32, 45, 79, 117, 116, 112, 117, 116, 70, 111, 114, 109, 97, 116, 32,
      84, 101, 120, 116, 32, 45, 69, 110, 99, 111, 100, 101, 100, 67, 111,
      109, 109, 97, 110, 100, 32>>

\* getWindowsUpdateCommand, lines 406-411: the prefix, then the base64 of b,
\* the bytes encodeUtf16Le(script) returned.
getWindowsUpdateCommand(s) ==
    CHOOSE c \in {CommandPrefix \o Base64Encode(b) : b \in {encodeUtf16Le(s)}} : TRUE

(* ------------------------------- state -------------------------------- *)
VARIABLES
    script,        \* the embedded Invoke-WinUpdate.ps1 (package variable script)
    raw,           \* the configuration the user gave to Prepare
    config,        \* p.config
    pc,            \* where the provisioner is
    cancelled,     \* ctx.Done() is closed
    try,           \* retry.Config.Run: the loop counter try
    rerr,          \* retry.Config.Run: err, the error of the last attempt
    timer,         \* retry.Config.Run: seconds until startTimeout fires (-1: nil channel)
    upFilePath,    \* uploadScript: filePath
    tmpFile,       \* the temporary file created last: name, content, closed (finalized)
    upRet,         \* what uploadScript returned: path, err
    filePath,      \* Provision: filePath
    scriptArg,     \* runWindowsUpdate: the parameter script (the path to run)
    command,       \* runWindowsUpdate: command, the command line to run
    exitStatus,    \* runWindowsUpdate: exitStatus
    runRet,        \* what runWindowsUpdate returned: code, err
    lastCall,      \* how the last cmd.RunWithUi ended (kind: none, transport, exit)
                   \* and the exit status read last (code)
    result,        \* the error Provision returned
    stageAttempts, \* how many times the upload attempt function ran
    remoteCalls,   \* how many times cmd.RunWithUi was called
    pFields,       \* p.communicator, p.ui, p.cancel: the invocation of Provision
                   \* whose values they hold (0: none)
    inv,           \* invocations of Provision that run at the same time on one
                   \* Provisioner: where each is, its try, its filePath
    created        \* how many temporary files these invocations have created

vars ==
    <<script, raw, config, pc, cancelled, try, rerr, timer, upFilePath, tmpFile,
      upRet, filePath, scriptArg, command, exitStatus, runRet, lastCall, result,
      stageAttempts, remoteCalls, pFields, inv, created>>

retryVars == <<try, rerr, timer>>
uploadVars == <<upFilePath, tmpFile, upRet, stageAttempts>>
concVars == <<inv, created>>
runVars == <<scriptArg, command, exitStatus, runRet, lastCall, remoteCalls>>

\* How many invocations of Provision run at the same time.
MaxInvocations == 2
Invocations == 1..MaxInvocations

\* The fields of the Provisioner as invocation i sets them, lines 234-236.
FieldsOf(i) == [communicator |-> i, ui |-> i, cancel |-> i]
\* The fields of new(Provisioner).
NoFields == FieldsOf(0)
\* An invocation that has not entered Provision.
IdleInvocation == [pc |-> "idle", try |-> 0, path |-> <<>>]

NoUpRet == [path |-> <<>>, err |-> NoErr]
NoRunRet == [code |-> ExitSuccess, err |-> NoErr]
NoCall == [kind |-> "none", code |-> ExitSuccess]

Init ==
    /\ script \in Payloads
    /\ raw = ZeroConfig
    /\ config = ZeroConfig
    /\ pc = "new"
    /\ cancelled = FALSE
    /\ try = 0
    /\ rerr = NoErr
    /\ timer = -1
    /\ upFilePath = <<>>
    /\ tmpFile = NoFile
    /\ upRet = NoUpRet
    /\ filePath = <<>>
    /\ scriptArg = <<>>
    /\ command = <<>>
    /\ exitStatus = ExitSuccess
    /\ runRet = NoRunRet
    /\ lastCall = NoCall
    /\ result = NoErr
    /\ stageAttempts = 0
    /\ remoteCalls = 0
    /\ pFields = NoFields
    /\ inv = [i \in Invocations |-> IdleInvocation]
    /\ created = 0

(* ------------------------- retry.Config.Run --------------------------- *)
\* startTimeout = time.After(cfg.StartTimeout) unless StartTimeout is 0.
StartTimer(d) == IF d = 0 THEN -1 ELSE Max(0, d)
\* d seconds pass.
Elapse(t, d) == IF t < 0 THEN t ELSE Max(0, t - d)
\* <-startTimeout is ready.
TimerFired(t) == t = 0
\* TriesExhausted for a loop that never counts its tries.
TriesExhaustedNever(tries, t) == FALSE
\* The head of the loop: cfg.Tries != 0 && try == cfg.Tries.
TriesExhausted(tries, t) == tries # 0 /\ t = tries
\* The select after a failed attempt: a ready case returns err, default sleeps.
SelectReturns(c, t) == c \/ TimerFired(t)

\* The retry.Config uploadScript builds, lines 302-306.
UploadRetryConfig(cfg) ==
    [StartTimeout |-> cfg.UploadTimeout,
     RetryDelay   |-> cfg.UploadRetryDelay,
     Tries        |-> cfg.UploadRetryAttempts]

\* UpdateRetryConfig with the upload's attempt count copied into Tries.
UpdateRetryConfigUploadTries(cfg) ==
    [StartTimeout |-> cfg.UpdateTimeout,
     RetryDelay   |-> RunRetryDelay,
     Tries        |-> cfg.UploadRetryAttempts]

\* UpdateRetryConfig with what is left of the upload's timer as StartTimeout.
UpdateRetryConfigLeftoverTimeout(cfg) ==
    [StartTimeout |-> timer,
     RetryDelay   |-> RunRetryDelay,
     Tries        |-> cfg.UpdateRetryAttempts]

\* The retry.Config runWindowsUpdate builds, lines 367-371: RetryDelay is not
\* set, so Run sleeps its own 2 seconds.
UpdateRetryConfig(cfg) ==
    [StartTimeout |-> cfg.UpdateTimeout,
     RetryDelay   |-> RunRetryDelay,
     Tries        |-> cfg.UpdateRetryAttempts]

(* ------------------------------ Prepare ------------------------------- *)
\* Prepare on a configuration of the set configs: decode, apply the defaults,
\* validate cab files and category ids.
PrepareWith(configs) ==
    /\ pc = "new"
    /\ \E r \in configs, decodeOk \in BOOLEAN, valid \in BOOLEAN :
        /\ raw' = r
        /\ IF ~decodeOk
           THEN /\ config' = config
                /\ pc' = "prepare_failed"
           ELSE /\ config' = ApplyDefaults(r)
                /\ pc' = IF valid THEN "prepared" ELSE "prepare_failed"
    /\ UNCHANGED <<script, pFields, concVars, cancelled, retryVars, uploadVars, filePath, runVars, result>>

\* Prepare as the provisioning runs use it.
Prepare == PrepareWith(RawConfigs)

\* Prepare on any configuration within the bounds.
PrepareWide == PrepareWith(WideRawConfigs)

(* ----------------------------- Provision ------------------------------ *)
\* Provision, lines 231-245: store the fields and call uploadScript.
ProvisionStart ==
    /\ pc = "prepared"
    /\ pFields' = FieldsOf(1)
    /\ pc' = "up_enter"
    /\ filePath' = <<>>
    /\ UNCHANGED <<script, concVars, raw, config, cancelled, retryVars, uploadVars, runVars, result>>

\* The context is cancelled by the caller, at any time during Provision.
Cancel ==
    /\ pc \notin {"new", "prepare_failed", "done"}
    /\ ~cancelled
    /\ cancelled' = TRUE
    /\ UNCHANGED <<script, pFields, concVars, raw, config, pc, retryVars, uploadVars, filePath, runVars, result>>

(* ---------------------------- uploadScript ---------------------------- *)
\* uploadScript returns (p, e): the locals of Run and of uploadScript are gone;
\* t is what is left on the timer at that moment.
UploadReturn(p, e, t) ==
    /\ upRet' = [path |-> p, err |-> e]
    /\ pc' = "up_ret"
    /\ try' = 0
    /\ rerr' = NoErr
    /\ timer' = t
    /\ upFilePath' = <<>>

\* PayloadEmpty without the check: an empty script is uploaded like any other.
PayloadEmptyNeverChecked(s) == FALSE

\* uploadScript, line 294: len(script) == 0.
PayloadEmpty(s) == Len(s) = 0

\* uploadScript, lines 289-306: the emptiness check, then retry.Config.Run starts.
UploadScriptEnter ==
    /\ pc = "up_enter"
    /\ IF PayloadEmpty(script)
       THEN UploadReturn(<<>>, Err("empty_script", ExitSuccess, 0), timer)
       ELSE /\ pc' = "up_top"
            /\ try' = 0
            /\ rerr' = NoErr
            /\ timer' = StartTimer(UploadRetryConfig(config).StartTimeout)
            /\ upFilePath' = <<>>
            /\ upRet' = upRet
    /\ UNCHANGED <<script, pFields, concVars, raw, config, cancelled, tmpFile, stageAttempts,
                   filePath, runVars, result>>

\* The head of Run's loop in uploadScript.
UploadLoopTop ==
    /\ pc = "up_top"
    /\ IF TriesExhausted(UploadRetryConfig(config).Tries, try)
       THEN UploadReturn(upFilePath, RetryExhausted(rerr), timer)
       ELSE /\ pc' = "up_fn"
            /\ UNCHANGED <<retryVars, upFilePath, upRet>>
    /\ UNCHANGED <<script, pFields, concVars, raw, config, cancelled, tmpFile, stageAttempts,
                   filePath, runVars, result>>

\* BufferBytes for a buffer made once and shared by the attempts: what the
\* write of the file created last has left unread.
BufferBytesLeftover(s) == SubSeq(s, Len(tmpFile.content) + 1, Len(s))

\* What bytes.NewBuffer(script).WriteTo(tmpFile) has to write: all of script.
BufferBytes(s) == s

\* The steps of one upload attempt that can fail, and "ok" when none does.
UploadOutcomes == {"create", "write", "close", "ok"}

\* UploadAttemptErr without the check of Close's error.
UploadAttemptErrCloseIgnored(outcome, a) ==
    CASE outcome = "create" -> Err("create", ExitSuccess, a)
      [] outcome = "write" -> Err("write", ExitSuccess, a)
      [] OTHER -> NoErr

\* The error attempt a returns, lines 313-336: each failing step returns its
\* own error, and the attempt returns nil only after Close succeeded.
UploadAttemptErr(outcome, a) ==
    CASE outcome = "create" -> Err("create", ExitSuccess, a)
      [] outcome = "write" -> Err("write", ExitSuccess, a)
      [] outcome = "close" -> Err("close", ExitSuccess, a)
      [] OTHER -> NoErr

\* The bytes in the new file after an attempt with this outcome: a failed
\* write leaves the first k bytes (k less than all of them).
WrittenBytes(outcome, bytes, k) ==
    IF outcome = "write" THEN SubSeq(bytes, 1, k) ELSE bytes

\* RecordedPath with the assignment of line 318 lost (made to a variable of
\* the closure): filePath keeps what it had.
RecordedPathKept(outcome, old, name) == old

\* filePath after an attempt, line 318: the name of the new file as soon as
\* os.CreateTemp succeeded, else what it was.
RecordedPath(outcome, old, name) == IF outcome = "create" THEN old ELSE name

\* One upload attempt, lines 308-336: create the file, store its path in
\* filePath, write script, close.
UploadAttempt ==
    /\ pc = "up_fn"
    /\ stageAttempts' = stageAttempts + 1
    /\ \E outcome \in UploadOutcomes, d \in 0..MaxAttemptTime,
          k \in 0..Max(0, Len(BufferBytes(script)) - 1) :
        LET name == TempName(stageAttempts + 1)
            e == UploadAttemptErr(outcome, try + 1)
            path == RecordedPath(outcome, upFilePath, name)
        IN
        /\ outcome # "write" => k = 0
        /\ IF outcome = "create"
           THEN tmpFile' = tmpFile
           ELSE tmpFile' = [name |-> name,
                           content |-> WrittenBytes(outcome, BufferBytes(script), k),
                           closed |-> (outcome = "ok")]
        /\ IF e = NoErr
           THEN UploadReturn(path, NoErr, Elapse(timer, d))
           ELSE /\ rerr' = e
                /\ upFilePath' = path
                /\ timer' = Elapse(timer, d)
                /\ pc' = "up_select"
                /\ UNCHANGED <<try, upRet>>
    /\ UNCHANGED <<script, pFields, concVars, raw, config, cancelled, filePath, runVars, result>>

\* The select after a failed upload attempt, and the sleep of its default case.
UploadSelect ==
    /\ pc = "up_select"
    /\ IF SelectReturns(cancelled, timer)
       THEN UploadReturn(upFilePath, rerr, timer)
       ELSE /\ timer' = Elapse(timer, UploadRetryConfig(config).RetryDelay)
            /\ try' = try + 1
            /\ pc' = "up_top"
            /\ UNCHANGED <<rerr, upFilePath, upRet>>
    /\ UNCHANGED <<script, pFields, concVars, raw, config, cancelled, tmpFile, stageAttempts,
                   filePath, runVars, result>>

(* ------------------------ Provision, continued ------------------------ *)
\* StagingVerdict with neither check: runWindowsUpdate is always called.
StagingVerdictUnchecked(p, e) == "execute"

\* StagingVerdict without the check of uploadScript's error.
StagingVerdictErrIgnored(p, e) ==
    IF Len(p) = 0 THEN "empty" ELSE "execute"

\* Provision, lines 247-255: what Provision does with uploadScript's result.
StagingVerdict(p, e) ==
    IF e # NoErr THEN "error"
    ELSE IF Len(p) = 0 THEN "empty"
    ELSE "execute"

\* Provision, lines 245-264: return the upload's error, or the empty-path
\* error, or call runWindowsUpdate with the path.
ProvisionAfterUpload ==
    /\ pc = "up_ret"
    /\ filePath' = upRet.path
    /\ LET v == StagingVerdict(upRet.path, upRet.err) IN
        /\ result' = IF v = "error" THEN upRet.err
                     ELSE IF v = "empty" THEN Err("empty_path", ExitSuccess, 0)
                     ELSE result
        /\ pc' = IF v = "execute" THEN "run_enter" ELSE "done"
        /\ scriptArg' = IF v = "execute" THEN upRet.path ELSE scriptArg
    /\ UNCHANGED <<script, pFields, concVars, raw, config, cancelled, retryVars, uploadVars,
                   command, exitStatus, runRet, lastCall, remoteCalls>>

(* -------------------------- runWindowsUpdate -------------------------- *)
\* runWindowsUpdate returns (c, e): the locals of Run are gone; t is what is
\* left on the timer at that moment.
RunReturn(c, e, t) ==
    /\ runRet' = [code |-> c, err |-> e]
    /\ pc' = "run_ret"
    /\ try' = 0
    /\ rerr' = NoErr
    /\ timer' = t

\* runWindowsUpdate, lines 342-371: the empty-path check, the command is
\* built, then Run starts.
RunWindowsUpdateEnter ==
    /\ pc = "run_enter"
    /\ IF Len(scriptArg) = 0
       THEN /\ RunReturn(ExitOne, Err("empty_arg", ExitSuccess, 0), timer)
            /\ exitStatus' = exitStatus
            /\ command' = command
       ELSE /\ pc' = "run_top"
            /\ command' = getWindowsUpdateCommand(scriptArg)
            /\ try' = 0
            /\ rerr' = NoErr
            /\ timer' = StartTimer(UpdateRetryConfig(config).StartTimeout)
            /\ exitStatus' = ExitSuccess
            /\ runRet' = runRet
    /\ UNCHANGED <<script, pFields, concVars, raw, config, cancelled, uploadVars, filePath, scriptArg,
                   lastCall, remoteCalls, result>>

\* The head of Run's loop in runWindowsUpdate.
RunLoopTop ==
    /\ pc = "run_top"
    /\ IF TriesExhausted(UpdateRetryConfig(config).Tries, try)
       THEN RunReturn(exitStatus, RetryExhausted(rerr), timer)
       ELSE /\ pc' = "run_fn"
            /\ UNCHANGED <<retryVars, runRet>>
    /\ UNCHANGED <<script, pFields, concVars, raw, config, cancelled, uploadVars, filePath, scriptArg,
                   command, exitStatus, lastCall, remoteCalls, result>>

\* ClassifyExit without its case 101: the legacy restart code is retried.
ClassifyExitNoLegacy(c, a) ==
    CASE c = ExitSuccess -> NoErr
      [] c = ExitRestart2012 -> NoErr
      [] OTHER -> Err("exit", c, a)

\* ClassifyExit with 0 as its only success.
ClassifyExitZeroOnly(c, a) ==
    CASE c = ExitSuccess -> NoErr
      [] OTHER -> Err("exit", c, a)

\* The switch on exitStatus, lines 389-400: the error of attempt a that ended
\* with exit status c.
ClassifyExit(c, a) ==
    CASE c = ExitSuccess -> NoErr
      [] c = ExitRestartLegacy -> NoErr
      [] c = ExitRestart2012 -> NoErr
      [] OTHER -> Err("exit", c, a)

\* The errors cmd.RunWithUi can return: the communicator could not start the
\* command, or the context was done before the command exited.
TransportFailures(c) == {"start"} \cup (IF c THEN {"ctx"} ELSE {})

\* One run attempt, lines 373-400: run the command; if that failed return its
\* error, else store the exit status and classify it.
RunAttempt ==
    /\ pc = "run_fn"
    /\ remoteCalls' = remoteCalls + 1
    /\ \E d \in 0..MaxAttemptTime :
        \/ \E f \in TransportFailures(cancelled) :
            /\ lastCall' = [kind |-> "transport", code |-> lastCall.code]
            /\ rerr' = Err(f, ExitSuccess, try + 1)
            /\ timer' = Elapse(timer, d)
            /\ pc' = "run_select"
            /\ UNCHANGED <<try, exitStatus, runRet>>
        \/ \E c \in ExitCodes :
            /\ lastCall' = [kind |-> "exit", code |-> c]
            /\ exitStatus' = c
            /\ IF ClassifyExit(c, try + 1) = NoErr
               THEN RunReturn(c, NoErr, Elapse(timer, d))
               ELSE /\ rerr' = ClassifyExit(c, try + 1)
                    /\ timer' = Elapse(timer, d)
                    /\ pc' = "run_select"
                    /\ UNCHANGED <<try, runRet>>
    /\ UNCHANGED <<script, pFields, concVars, raw, config, cancelled, uploadVars, filePath, scriptArg,
                   command, result>>

\* The select after a failed run attempt, and the sleep of its default case.
RunSelect ==
    /\ pc = "run_select"
    /\ IF SelectReturns(cancelled, timer)
       THEN RunReturn(exitStatus, rerr, timer)
       ELSE /\ timer' = Elapse(timer, UpdateRetryConfig(config).RetryDelay)
            /\ try' = try + 1
            /\ pc' = "run_top"
            /\ UNCHANGED <<rerr, runRet>>
    /\ UNCHANGED <<script, pFields, concVars, raw, config, cancelled, uploadVars, filePath, scriptArg,
                   command, exitStatus, lastCall, remoteCalls, result>>

\* ProvisionResult with its two checks in the other order.
ProvisionResultStatusFirst(statusCode, e) ==
    IF statusCode # ExitSuccess THEN Err("nonzero", statusCode, 0)
    ELSE e

\* Provision, lines 278-286: the error Provision returns after runWindowsUpdate
\* returned (statusCode, e).
ProvisionResult(statusCode, e) ==
    IF e # NoErr THEN e
    ELSE IF statusCode # ExitSuccess THEN Err("nonzero", statusCode, 0)
    ELSE NoErr

\* Provision, lines 264-286.
ProvisionAfterRun ==
    /\ pc = "run_ret"
    /\ result' = ProvisionResult(runRet.code, runRet.err)
    /\ pc' = "done"
    /\ UNCHANGED <<script, pFields, concVars, raw, config, cancelled, retryVars, uploadVars, filePath,
                   runVars>>

(* --------------------------- specification ---------------------------- *)
Next ==
    \/ Prepare
    \/ ProvisionStart
    \/ Cancel
    \/ UploadScriptEnter
    \/ UploadLoopTop
    \/ UploadAttempt
    \/ UploadSelect
    \/ ProvisionAfterUpload
    \/ RunWindowsUpdateEnter
    \/ RunLoopTop
    \/ RunAttempt
    \/ RunSelect
    \/ ProvisionAfterRun

Spec == Init /\ [][Next]_vars

\* The steps Provision takes by itself once it is called: everything but the
\* calls of Prepare and Provision and the caller's cancellation.
ProvisionStep ==
    \/ UploadScriptEnter
    \/ UploadLoopTop
    \/ UploadAttempt
    \/ UploadSelect
    \/ ProvisionAfterUpload
    \/ RunWindowsUpdateEnter
    \/ RunLoopTop
    \/ RunAttempt
    \/ RunSelect
    \/ ProvisionAfterRun

\* Configurations for the runs whose end is checked: both attempt counts
\* left to their defaults or set, both timeouts left to their defaults (they
\* do not fire within the attempts) or short (they fire).
FairConfigs ==
    {[UploadRetryAttempts |-> a,
      UpdateRetryAttempts |-> a,
      UploadRetryDelay    |-> 1,
      UploadTimeout       |-> t,
      UpdateTimeout       |-> t,
      RestartTimeout      |-> 0] : a \in {0, MaxRawAttempts}, t \in {0, MaxRawDuration}}

\* Prepare on one of these configurations.
PrepareFair == PrepareWith(FairConfigs)

NextFair ==
    \/ PrepareFair
    \/ ProvisionStart
    \/ Cancel
    \/ ProvisionStep

\* A Provision that keeps running: every upload attempt, every remote command
\* and every sleep returns, so its next step is taken.
SpecFair == Init /\ [][NextFair]_vars /\ WF_vars(ProvisionStep)

\* Prepare alone, over every configuration within the bounds.
SpecPrepare == Init /\ [][PrepareWide]_vars

(* -------------------- Provision, several at a time -------------------- *)
\* What the invocations that share a Provisioner leave alone.
soloVars ==
    <<script, raw, config, pc, cancelled, retryVars, uploadVars, filePath,
      runVars, result>>

\* An invocation enters Provision, lines 231-245 and 292-296: it stores its
\* arguments in the fields of the Provisioner, then calls uploadScript, which
\* returns at once if the script is empty.
ConcProvisionEnter ==
    \E i \in Invocations :
        /\ inv[i].pc = "idle"
        /\ pFields' = FieldsOf(i)
        /\ inv' = [inv EXCEPT ![i].pc =
                        IF PayloadEmpty(script) THEN "failed" ELSE "staging"]
        /\ UNCHANGED <<created, soloVars>>

\* One upload attempt of an invocation, lines 308-337 and Run's loop around
\* it: os.CreateTemp gives a name no file has, the attempt records it, and a
\* failed attempt is retried unless the tries are exhausted or Run gives up.
ConcUploadAttempt ==
    \E i \in Invocations, outcome \in UploadOutcomes, giveUp \in BOOLEAN :
        LET name == TempName(created + 1)
            e == UploadAttemptErr(outcome, inv[i].try + 1)
            path == RecordedPath(outcome, inv[i].path, name)
            over == giveUp \/ TriesExhausted(UploadRetryConfig(config).Tries,
                                             inv[i].try + 1)
        IN
        /\ inv[i].pc = "staging"
        /\ created' = IF outcome = "create" THEN created ELSE created + 1
        /\ inv' = [inv EXCEPT ![i] =
                    [pc |-> IF e = NoErr THEN "staged"
                            ELSE IF over THEN "failed" ELSE "staging",
                     try |-> inv[i].try + 1,
                     path |-> path]]
        /\ UNCHANGED <<pFields, soloVars>>

\* An invocation goes on from a staged script to the end of Provision, lines
\* 257-286.
ConcProvisionReturn ==
    \E i \in Invocations :
        /\ inv[i].pc = "staged"
        /\ inv' = [inv EXCEPT ![i].pc = "done"]
        /\ UNCHANGED <<pFields, created, soloVars>>

\* The steps of the invocations that share a Provisioner.
NextConcurrent ==
    \/ ConcProvisionEnter
    \/ ConcUploadAttempt
    \/ ConcProvisionReturn

\* A prepared Provisioner that no invocation has entered.
InitConcurrent ==
    /\ script \in Payloads
    /\ raw = ZeroConfig
    /\ config = ApplyDefaults(ZeroConfig)
    /\ pc = "prepared"
    /\ cancelled = FALSE
    /\ try = 0
    /\ rerr = NoErr
    /\ timer = -1
    /\ upFilePath = <<>>
    /\ tmpFile = NoFile
    /\ upRet = NoUpRet
    /\ filePath = <<>>
    /\ scriptArg = <<>>
    /\ command = <<>>
    /\ exitStatus = ExitSuccess
    /\ runRet = NoRunRet
    /\ lastCall = NoCall
    /\ result = NoErr
    /\ stageAttempts = 0
    /\ remoteCalls = 0
    /\ pFields = NoFields
    /\ inv = [i \in Invocations |-> IdleInvocation]
    /\ created = 0

\* Several invocations of Provision on one prepared Provisioner.
SpecConcurrent == InitConcurrent /\ [][NextConcurrent]_vars

\* getWindowsUpdateCommand is about to be called on a string of sample bytes.
InitEncode ==
    /\ script = <<>>
    /\ raw = ZeroConfig
    /\ config = ZeroConfig
    /\ pc = "encode"
    /\ cancelled = FALSE
    /\ try = 0
    /\ rerr = NoErr
    /\ timer = -1
    /\ upFilePath = <<>>
    /\ tmpFile = NoFile
    /\ upRet = NoUpRet
    /\ filePath = <<>>
    /\ scriptArg \in StringsUpTo(MaxStrLen)
    /\ command = <<>>
    /\ exitStatus = ExitSuccess
    /\ runRet = NoRunRet
    /\ lastCall = NoCall
    /\ result = NoErr
    /\ stageAttempts = 0
    /\ remoteCalls = 0
    /\ pFields = NoFields
    /\ inv = [i \in Invocations |-> IdleInvocation]
    /\ created = 0

\* command := p.getWindowsUpdateCommand(script), line 356, on its own.
EncodeCommand ==
    /\ pc = "encode"
    /\ command' = getWindowsUpdateCommand(scriptArg)
    /\ pc' = "encoded"
    /\ UNCHANGED <<script, pFields, concVars, raw, config, cancelled, retryVars, uploadVars, filePath,
                   scriptArg, exitStatus, runRet, lastCall, remoteCalls, result>>

\* getWindowsUpdateCommand alone, over every string of sample bytes.
SpecEncode == InitEncode /\ [][EncodeCommand]_vars

TypeOK ==
    /\ script \in Payloads
    /\ pc \in {"new", "prepare_failed", "prepared", "up_enter", "up_top", "up_fn",
               "up_select", "up_ret", "run_enter", "run_top", "run_fn",
               "run_select", "run_ret", "done", "encode", "encoded"}
    /\ cancelled \in BOOLEAN
    /\ try \in Nat
    /\ timer \in Int
    /\ stageAttempts \in Nat
    /\ remoteCalls \in Nat

(* ------------------------------- claims ------------------------------- *)
InProvision == pc \notin {"new", "prepare_failed", "prepared"}
InRun == pc \in {"run_enter", "run_top", "run_fn", "run_select", "run_ret"}

\* C1: whenever the execution phase ends with a restart-pending exit code
\* (101 or 2147942501), Provision returns no error, as it does for exit code 0.
C1_RestartPendingIsSuccess ==
    (pc = "done" /\ lastCall.kind = "exit" /\ lastCall.code \in RestartCodes)
        => result = NoErr

\* C2: an attempt whose exit code is 0, 101 or 2147942501 ends the retry loop:
\* runWindowsUpdate has returned that code with a nil error, so no further
\* remote command is issued, however many attempts were left.
C2_StopCodeEndsTheLoop ==
    (lastCall.kind = "exit" /\ lastCall.code \in StopCodes)
        => /\ pc \in {"run_ret", "done"}
           /\ runRet.err = NoErr
           /\ runRet.code = lastCall.code
           /\ remoteCalls <= config.UpdateRetryAttempts

\* A restart code at the second of five attempts has ended the loop.
C2_Witness ==
    /\ pc = "run_ret"
    /\ lastCall = [kind |-> "exit", code |-> ExitRestart2012]
    /\ remoteCalls = 2
    /\ config.UpdateRetryAttempts = 5

\* C3: remote commands never outnumber UpdateRetryAttempts; runWindowsUpdate
\* returns a nil error only after an attempt ended with 0, 101 or 2147942501;
\* and when it fails with neither the timeout fired nor the context cancelled,
\* it has issued exactly UpdateRetryAttempts commands and returns the
\* exhaustion error of the last attempt, with that attempt's exit code.
C3_ExhaustionAfterMaxAttempts ==
    /\ InProvision => remoteCalls <= config.UpdateRetryAttempts
    /\ (pc = "run_ret" /\ runRet.err = NoErr)
        => (lastCall.kind = "exit" /\ lastCall.code \in StopCodes)
    /\ (pc = "run_ret" /\ runRet.err # NoErr /\ ~cancelled /\ ~TimerFired(timer))
        => /\ runRet.err.exhausted
           /\ remoteCalls = config.UpdateRetryAttempts
           /\ runRet.err.attempt = config.UpdateRetryAttempts
           /\ lastCall.kind = "exit"
                => /\ runRet.err.kind = "exit"
                   /\ runRet.err.code = lastCall.code
                   /\ runRet.code = lastCall.code

\* Exit code 5 at each of 3 attempts: 3 remote calls, failure with code 5.
C3_Witness ==
    /\ pc = "run_ret"
    /\ config.UpdateRetryAttempts = 3
    /\ remoteCalls = 3
    /\ ~cancelled
    /\ runRet = [code |-> ExitCode(0, 5),
                 err |-> RetryExhausted(Err("exit", ExitCode(0, 5), 3))]

\* C4: runWindowsUpdate is only ever called with a non-empty path, the one
\* Provision got from uploadScript; an empty path after staging ends Provision
\* with the empty-path error and without a remote command.
C4_ExecutorGetsNonEmptyLocation ==
    /\ InRun => (Len(scriptArg) > 0 /\ scriptArg = filePath)
    /\ remoteCalls > 0 => Len(scriptArg) > 0
    /\ (pc = "done" /\ upRet.err = NoErr /\ Len(upRet.path) = 0)
        => (result.kind = "empty_path" /\ remoteCalls = 0)
    /\ result.kind = "empty_path" => remoteCalls = 0

\* The path staged by the second upload attempt is being run.
C4_Witness ==
    /\ pc = "run_fn"
    /\ scriptArg = TempName(2)
    /\ filePath = TempName(2)
    /\ remoteCalls = 1

\* C5 (as claimed): for a non-empty script uploadScript either returns, with a
\* nil error, the path of a closed file holding exactly the script, or fails
\* after exactly UploadRetryAttempts attempts or with the upload timeout elapsed.
C5_StageSucceedsOrExhausts ==
    (pc = "up_ret" /\ Len(script) > 0)
        => \/ /\ upRet.err = NoErr
              /\ tmpFile = [name |-> upRet.path, content |-> script, closed |-> TRUE]
           \/ /\ upRet.err # NoErr
              /\ \/ stageAttempts = config.UploadRetryAttempts
                 \/ TimerFired(timer)

\* C5 (amended): ... or fails after exactly UploadRetryAttempts attempts
\* (the exhaustion error), or earlier, right after a failed attempt at which
\* the upload timeout has elapsed or the context is cancelled; the error is
\* that of the last attempt.
C5_StageSucceedsOrGivesUp ==
    (pc = "up_ret" /\ Len(script) > 0)
        => /\ stageAttempts \in 1..config.UploadRetryAttempts
           /\ \/ /\ upRet.err = NoErr
                 /\ Len(upRet.path) > 0
                 /\ tmpFile = [name |-> upRet.path, content |-> script,
                               closed |-> TRUE]
              \/ /\ upRet.err # NoErr
                 /\ upRet.err.attempt = stageAttempts
                 /\ IF upRet.err.exhausted
                    THEN stageAttempts = config.UploadRetryAttempts
                    ELSE TimerFired(timer) \/ cancelled

\* The third attempt staged a two-byte script after two failed attempts.
C5_Witness ==
    /\ pc = "up_ret"
    /\ Len(script) = 2
    /\ stageAttempts = 3
    /\ upRet = [path |-> TempName(3), err |-> NoErr]
    /\ tmpFile = [name |-> TempName(3), content |-> script, closed |-> TRUE]

\* C6: with an empty script Provision fails at once with the empty-script
\* error: no upload attempt, no temporary file, no remote command, no retry.
C6_EmptyPayloadFailsAtOnce ==
    (Len(script) = 0 /\ InProvision)
        => /\ pc \in {"up_enter", "up_ret", "done"}
           /\ stageAttempts = 0
           /\ tmpFile = NoFile
           /\ remoteCalls = 0
           /\ pc # "up_enter"
                => upRet = [path |-> <<>>, err |-> Err("empty_script", ExitSuccess, 0)]
           /\ pc = "done" => result = Err("empty_script", ExitSuccess, 0)

\* Provision has returned the empty-script error.
C6_Witness ==
    /\ pc = "done"
    /\ script = <<>>
    /\ result.kind = "empty_script"

\* C7: when uploadScript returns an error, runWindowsUpdate is never entered,
\* no remote command is issued, and Provision returns that very error.
C7_StagingErrorSkipsExecution ==
    upRet.err # NoErr
        => /\ pc \in {"up_ret", "done"}
           /\ remoteCalls = 0
           /\ lastCall = NoCall
           /\ pc = "done" => result = upRet.err

\* Provision has returned the exhaustion error of an upload whose last attempt
\* failed while writing.
C7_Witness ==
    /\ pc = "done"
    /\ upRet.err.exhausted
    /\ upRet.err.kind = "write"
    /\ Len(upRet.path) > 0
    /\ result = upRet.err

\* C8 (as claimed): when the execution phase fails, the error Provision
\* returns carries the numeric exit code, also when attempts failed in
\* transport.
C8_FailureCarriesExitCode ==
    (pc = "done" /\ remoteCalls > 0 /\ runRet.err # NoErr)
        => (result.kind = "exit" /\ result.code = runRet.code)

\* C8 (amended): when the execution phase fails, Provision returns the error
\* of runWindowsUpdate unchanged; it carries the exit code of the last attempt
\* when that attempt ended with an exit code, and is the transport error,
\* without an exit code, when the last attempt failed in transport.
C8_FailureCarriesLastAttemptError ==
    (pc = "done" /\ remoteCalls > 0 /\ runRet.err # NoErr)
        => /\ result = runRet.err
           /\ lastCall.kind = "exit"
                => (result.kind = "exit" /\ result.code = lastCall.code)
           /\ lastCall.kind = "transport"
                => (result.kind \in {"start", "ctx"} /\ result.code = ExitSuccess)

\* Provision has failed with the exit code 2147942405 of the second attempt.
C8_Witness ==
    /\ pc = "done"
    /\ remoteCalls = 2
    /\ lastCall = [kind |-> "exit", code |-> ExitCode(32775, 5)]
    /\ result = RetryExhausted(Err("exit", ExitCode(32775, 5), 2))

\* C9 (as claimed): the exit code runWindowsUpdate returns and its error agree:
\* the error is non-nil exactly when the code is a failure code, and is the
\* error about that code; no stale code or initial 0 comes with another error.
C9_ExitCodeMatchesError ==
    (pc = "run_ret" /\ remoteCalls > 0)
        => /\ (runRet.err # NoErr) <=> (runRet.code \notin StopCodes)
           /\ runRet.err # NoErr => runRet.err.code = runRet.code

\* C9 (amended): runWindowsUpdate returns the exit code read last (0 when no
\* attempt got one) and an error that is non-nil exactly when the last attempt
\* failed; after a last attempt that failed in transport the code is the one
\* of an earlier attempt, or 0, and the error is the transport error.
C9_LastObservedCodeAndError ==
    (pc = "run_ret" /\ remoteCalls > 0)
        => /\ runRet.code = lastCall.code
           /\ (runRet.err # NoErr)
                <=> (lastCall.kind = "transport" \/ lastCall.code \notin StopCodes)
           /\ (lastCall.kind = "exit" /\ runRet.err # NoErr)
                => (runRet.err.kind = "exit" /\ runRet.err.code = runRet.code)
           /\ lastCall.kind = "transport" => runRet.err.kind \in {"start", "ctx"}

\* The second attempt failed in transport: exit code 5 of the first attempt is
\* returned with the transport error.
C9_Witness ==
    /\ pc = "run_ret"
    /\ remoteCalls = 2
    /\ lastCall = [kind |-> "transport", code |-> ExitCode(0, 5)]
    /\ runRet.code = ExitCode(0, 5)
    /\ runRet.err.kind = "start"

\* C10: with update_retry_attempts not given (0), Prepare sets
\* UpdateRetryAttempts to 3, so a script that always fails runs 3 times.
C10_DefaultUpdateAttemptsIsThree ==
    (raw.UpdateRetryAttempts = 0 /\ pc \notin {"new", "prepare_failed"})
        => /\ config.UpdateRetryAttempts = DefaultUpdateAttempts
           /\ (pc = "run_ret" /\ runRet.err.exhausted)
                => remoteCalls = DefaultUpdateAttempts

\* C11: after a successful Prepare both retry policies are well-formed
\* (attempts >= 1, upload delay and the timeouts > 0): an input that is not
\* positive got its default (upload attempts 5, upload delay 30s, upload
\* timeout 5m, update timeout 4h, restart timeout 1h) and a positive input is
\* unchanged.
C11_PreparedPoliciesWellFormed ==
    pc = "prepared"
        => /\ config.UploadRetryAttempts >= 1
           /\ config.UpdateRetryAttempts >= 1
           /\ config.UploadRetryDelay > 0
           /\ config.UploadTimeout > 0
           /\ config.UpdateTimeout > 0
           /\ config.RestartTimeout > 0
           /\ config.UploadRetryAttempts =
                (IF raw.UploadRetryAttempts <= 0 THEN 5 ELSE raw.UploadRetryAttempts)
           /\ config.UploadRetryDelay =
                (IF raw.UploadRetryDelay <= 0 THEN 30 ELSE raw.UploadRetryDelay)
           /\ config.UploadTimeout =
                (IF raw.UploadTimeout <= 0 THEN 5 * 60 ELSE raw.UploadTimeout)
           /\ config.UpdateTimeout =
                (IF raw.UpdateTimeout <= 0 THEN 4 * 3600 ELSE raw.UpdateTimeout)
           /\ config.RestartTimeout =
                (IF raw.RestartTimeout <= 0 THEN 3600 ELSE raw.RestartTimeout)
           /\ raw.UpdateRetryAttempts > 0
                => config.UpdateRetryAttempts = raw.UpdateRetryAttempts

\* Prepare has replaced a zero delay and a negative timeout and kept the
\* positive inputs.
C11_Witness ==
    /\ pc = "prepared"
    /\ raw.UploadRetryDelay = 0
    /\ raw.UploadTimeout = -1
    /\ raw.UpdateTimeout = 1
    /\ raw.UploadRetryAttempts = 2
    /\ config.UploadRetryDelay = 30
    /\ config.UploadTimeout = 300
    /\ config.UpdateTimeout = 1
    /\ config.UploadRetryAttempts = 2

\* C12: once the cancellation signal is raised, no new staging attempt and no
\* new remote command is started, whether it came during an attempt, during
\* the delay between attempts or between the two phases.
C12_NoNewAttemptAfterCancel ==
    [][cancelled => /\ stageAttempts' = stageAttempts
                    /\ remoteCalls' = remoteCalls]_vars

\* The orchestrator's state: Start once Provision is entered, Staging while
\* uploadScript runs or has failed, Staged once it has returned a nil error,
\* Executing while runWindowsUpdate runs or has returned, then Done or Failed
\* by what Provision returns.
OrchState ==
    CASE pc \in {"new", "prepare_failed", "prepared"} -> "Idle"
      [] pc = "up_enter" -> "Start"
      [] pc \in {"up_top", "up_fn", "up_select"} -> "Staging"
      [] pc = "up_ret" -> IF upRet.err = NoErr THEN "Staged" ELSE "Staging"
      [] pc \in {"run_enter", "run_top", "run_fn", "run_select", "run_ret"}
            -> "Executing"
      [] pc = "done" -> IF result = NoErr THEN "Done" ELSE "Failed"

\* The place of an orchestrator state in the order of the workflow.
OrchRank(st) ==
    CASE st = "Idle" -> 0
      [] st = "Start" -> 1
      [] st = "Staging" -> 2
      [] st = "Staged" -> 3
      [] st = "Executing" -> 4
      [] st = "Done" -> 5
      [] st = "Failed" -> 6

\* C13: the orchestrator goes through Start, Staging, Staged, Executing, Done
\* in that order, one state at a time, Failed being reachable from any of
\* them; a state that was left is never entered again, so that staging is
\* entered once, execution at most once and only from Staged, and staging is
\* not entered again after execution.
C13_OrchestratorOrder ==
    [][OrchState' # OrchState
        => /\ OrchState \notin {"Done", "Failed"}
           /\ \/ OrchRank(OrchState') = OrchRank(OrchState) + 1
              \/ OrchState' = "Failed" /\ OrchState # "Idle"
           /\ OrchState' = "Executing"
                => /\ upRet.err = NoErr
                   /\ Len(upRet.path) > 0
                   /\ stageAttempts >= 1
                   /\ remoteCalls = 0]_vars

\* A workflow that went through every state, with a retry in each phase.
C13_Witness ==
    /\ OrchState = "Done"
    /\ stageAttempts >= 2
    /\ remoteCalls >= 2

\* C14: the execution loop's budget does not depend on what staging used:
\* however many attempts and seconds staging took, the execution loop starts
\* with no attempt made and its whole UpdateTimeout ahead, loses time only to
\* its own attempts and delays, and runs out of attempts only after
\* UpdateRetryAttempts remote commands.
C14_BudgetsIndependent ==
    /\ (pc = "run_top" /\ try = 0)
        => /\ remoteCalls = 0
           /\ timer = config.UpdateTimeout
    /\ pc \in {"run_top", "run_fn"} => remoteCalls = try
    /\ pc = "run_select" => remoteCalls = try + 1
    /\ pc \in {"run_top", "run_fn", "run_select"}
        => timer >= Max(0, config.UpdateTimeout
                            - remoteCalls * MaxAttemptTime - try * RunRetryDelay)
    /\ (pc = "run_ret" /\ runRet.err.exhausted)
        => remoteCalls = config.UpdateRetryAttempts

\* Staging used 2 attempts of its 3, and the execution loop then made all of
\* its 3 attempts.
C14_Witness ==
    /\ pc = "run_ret"
    /\ config.UploadRetryAttempts = 3
    /\ stageAttempts = 2
    /\ config.UpdateRetryAttempts = 3
    /\ remoteCalls = 3
    /\ runRet.err.exhausted

\* C15: whenever uploadScript returns a non-nil error, the location it returns
\* is empty.
C15_FailedStagingReturnsNoLocation ==
    (pc = "up_ret" /\ upRet.err # NoErr) => upRet.path = <<>>

\* C16: when a retry loop gives up, for its attempts or for its timeout, the
\* error it returns is the error of the most recent attempt, never an earlier
\* one and never nil, and it is marked as an exhaustion exactly when the
\* attempts ran out.
C16_GivingUpReturnsLastError ==
    /\ (pc = "up_ret" /\ upRet.err # NoErr /\ stageAttempts > 0)
        => /\ upRet.err.kind \in {"create", "write", "close"}
           /\ upRet.err.attempt = stageAttempts
           /\ upRet.err.exhausted => stageAttempts = config.UploadRetryAttempts
           /\ ~upRet.err.exhausted => (cancelled \/ timer = 0)
    /\ (pc = "run_ret" /\ runRet.err # NoErr /\ remoteCalls > 0)
        => /\ runRet.err.kind \in {"start", "ctx", "exit"}
           /\ runRet.err.attempt = remoteCalls
           /\ runRet.err.kind = "exit"
                => lastCall.kind = "exit" /\ runRet.err.code = lastCall.code
           /\ runRet.err.kind # "exit" => lastCall.kind = "transport"
           /\ runRet.err.exhausted => remoteCalls = config.UpdateRetryAttempts
           /\ ~runRet.err.exhausted => (cancelled \/ timer = 0)

\* The execution loop has run out of attempts after a failing exit code and
\* then a command that could not be started: the error it returns is the
\* second attempt's, wrapped as an exhaustion.
C16_Witness ==
    /\ pc = "run_ret"
    /\ remoteCalls = 2
    /\ config.UpdateRetryAttempts = 2
    /\ runRet.err.exhausted
    /\ runRet.err.kind = "start"
    /\ runRet.err.attempt = 2
    /\ exitStatus = ExitCode(0, 5)

\* The string s is printable ASCII.
PrintableAscii(s) == \A i \in 1..Len(s) : 32 <= s[i] /\ s[i] <= 126

\* utf16le_bytes(s) for an ASCII string: the code of each character, then 0.
AsciiUtf16Le(s) ==
    [j \in 1..(2 * Len(s)) |-> IF j % 2 = 1 THEN s[(j + 1) \div 2] ELSE 0]

\* What follows the prefix in the command.
EncodedArgument == SubSeq(command, Len(CommandPrefix) + 1, Len(command))

\* C17: for a printable-ASCII string s, encodeUtf16Le(s) is 2*len(s) bytes,
\* the code of each character followed by 0, and the command built from s
\* ends with the base64 of exactly those bytes: decoding the argument gives
\* them back.
C17_EncodedCommandRoundTrip ==
    (pc = "encoded" /\ PrintableAscii(scriptArg))
        => /\ Len(encodeUtf16Le(scriptArg)) = 2 * Len(scriptArg)
           /\ \A i \in 1..Len(scriptArg) :
                /\ encodeUtf16Le(scriptArg)[2 * i - 1] = scriptArg[i]
                /\ encodeUtf16Le(scriptArg)[2 * i] = 0
           /\ SubSeq(command, 1, Len(CommandPrefix)) = CommandPrefix
           /\ Len(EncodedArgument) = 4 * ((2 * Len(scriptArg) + 2) \div 3)
           /\ Base64Decode(EncodedArgument) = AsciiUtf16Le(scriptArg)

\* The command was built from the three characters "/' : 6 bytes, 8
\* characters of base64 and no padding.
C17_Witness ==
    /\ pc = "encoded"
    /\ scriptArg = <<34, 47, 39>>
    /\ Len(EncodedArgument) = 8
    /\ Base64Decode(EncodedArgument) = <<34, 0, 47, 0, 39, 0>>

\* C18: no step changes the payload, and every staging attempt that creates a
\* file, the first as well as each retry, writes the payload from its first
\* byte: all of it, or a proper prefix of it when the write fails.
C18_AttemptsWriteWholePayload ==
    [][/\ script' = script
       /\ (stageAttempts' # stageAttempts /\ tmpFile'.name = TempName(stageAttempts'))
            => /\ \E k \in 0..Len(script) : tmpFile'.content = SubSeq(script, 1, k)
               /\ rerr'.kind # "write" => tmpFile'.content = script]_vars

\* The third attempt has written the whole of a payload of two different
\* bytes after two attempts failed.
C18_Witness ==
    /\ pc = "up_ret"
    /\ upRet.err = NoErr
    /\ stageAttempts = 3
    /\ Len(script) = 2
    /\ script[1] # script[2]
    /\ tmpFile.content = script
    /\ tmpFile.closed

\* Invocation i is inside Provision.
Running(i) == inv[i].pc \in {"staging", "staged"}

\* C19: invocations of Provision that run at the same time share no mutable
\* state: the fields communicator, ui and cancel that a running invocation
\* wrote are not written by another one, and no two invocations hold the same
\* staged location.
C19_InvocationsShareNothing ==
    /\ \A i \in Invocations : Running(i) => pFields = FieldsOf(i)
    /\ \A i, j \in Invocations :
        (i # j /\ inv[i].path # <<>>) => inv[i].path # inv[j].path

\* C20: whenever uploadScript returns a nil error, the location it returns is
\* not empty and is the file the last attempt, the successful one, created
\* and closed; Provision's empty-location error is never returned.
C20_StagedLocationIsLastFile ==
    /\ (pc = "up_ret" /\ upRet.err = NoErr)
        => /\ Len(upRet.path) > 0
           /\ upRet.path = TempName(stageAttempts)
           /\ upRet.path = tmpFile.name
           /\ tmpFile.closed
    /\ result.kind # "empty_path"

\* uploadScript has returned the file of its third attempt, closed, after
\* two attempts failed.
C20_Witness ==
    /\ pc = "up_ret"
    /\ upRet.err = NoErr
    /\ stageAttempts = 3
    /\ upRet.path = TempName(3)
    /\ tmpFile.closed

\* C21: after a successful Prepare, a Provision whose attempts and remote
\* commands all return ends in Done or Failed: it never makes more than
\* UploadRetryAttempts staging attempts nor more than UpdateRetryAttempts
\* remote commands, whether or not a timeout fires.
C21_ProvisionTerminates ==
    /\ [](InProvision => /\ stageAttempts <= config.UploadRetryAttempts
                         /\ remoteCalls <= config.UpdateRetryAttempts)
    /\ (InProvision ~> pc = "done")

\* Provision has ended after every attempt failed and no timeout fired: all
\* the staging attempts but the last, then all the remote commands.
C21_Witness ==
    /\ pc = "done"
    /\ ~cancelled
    /\ timer > 0
    /\ config.UploadRetryAttempts = 3
    /\ stageAttempts = 3
    /\ config.UpdateRetryAttempts = 3
    /\ remoteCalls = 3
    /\ result.exhausted
====
